---- MODULE Spec2Model ----
(***************************************************************************)
(* A model of the two pieces of control logic of the repository:           *)
(*   - the retrying mail sender of src/lib/email.ts (sendWithRetry and the *)
(*     process-wide emailMetrics), and                                     *)
(*   - the payment-processor webhook route (POST and its handlers).        *)
(* Both run on a JavaScript event loop: the code between two awaits runs   *)
(* without interruption, so every action below is one such segment.        *)
(***************************************************************************)
EXTENDS Integers, Sequences, FiniteSets, TLC

(***************************************************************************)
(* Bounds of the model.                                                    *)
(***************************************************************************)
MaxCalls == 3            \* sendWithRetry invocations in one behaviour

(***************************************************************************)
(* JavaScript numbers.  emailMetrics.deliveryRate is an IEEE 754 binary64  *)
(* value.  A positive double is [e, m]: m is its 53-bit significand, most  *)
(* significant bit first (m[1] = 1), and its value is m * 2^(e-52).  Zero  *)
(* is [e |-> 0, m |-> <<>>].  Only the operations the code applies are     *)
(* defined: int -> double, double / double of two integers, and            *)
(* double * integer-valued double, each rounded to nearest, ties to even.  *)
(***************************************************************************)
MantissaBits == 53

FZero == [e |-> 0, m |-> <<>>]

\* The helpers recurse by halving, or over 13-bit limbs, to stay shallow.
RECURSIVE Pow2(_)
Pow2(k) ==
  IF k <= 0 THEN 1
  ELSE IF k % 2 = 0 THEN LET h == Pow2(k \div 2) IN h * h
  ELSE 2 * Pow2(k - 1)

\* 2^k modulo b
RECURSIVE PowMod2(_, _)
PowMod2(k, b) ==
  IF k = 0 THEN 1 % b
  ELSE IF k % 2 = 0 THEN LET h == PowMod2(k \div 2, b) IN (h * h) % b
  ELSE (2 * PowMod2(k - 1, b)) % b

\* binary digits of n >= 0, most significant first; <<>> for 0
RECURSIVE IntBits(_)
IntBits(n) == IF n = 0 THEN <<>> ELSE Append(IntBits(n \div 2), n % 2)

\* n < 2^w as exactly w binary digits
PadBits(n, w) == [i \in 1..w |-> (n \div Pow2(w - i)) % 2]

RECURSIVE BitsVal(_)
BitsVal(s) ==
  IF s = <<>> THEN 0
  ELSE IF Len(s) = 1 THEN s[1]
  ELSE LET h == Len(s) \div 2
       IN  BitsVal(SubSeq(s, 1, h)) * Pow2(Len(s) - h)
             + BitsVal(SubSeq(s, h + 1, Len(s)))

Zeros(k) == [i \in 1..k |-> 0]

\* the first k binary digits of the fraction r/b (0 <= r < b), and what is
\* left of the dividend after them
FracBits(r, b, k) == [i \in 1..k |-> (2 * ((r * PowMod2(i - 1, b)) % b)) \div b]

FracRem(r, b, k) == (r * PowMod2(k, b)) % b

RECURSIVE LeadZeros(_, _)
LeadZeros(r, b) == IF 2 * r >= b THEN 0 ELSE 1 + LeadZeros(2 * r, b)

\* m + 1 for a bit string m that is not all ones
IncBits(m) ==
  LET p == CHOOSE i \in 1..Len(m) :
             m[i] = 0 /\ \A j \in (i + 1)..Len(m) : m[j] = 1
  IN  [i \in 1..Len(m) |-> IF i < p THEN m[i] ELSE IF i = p THEN 1 ELSE 0]

AnyOne(s) == \E i \in 1..Len(s) : s[i] = 1

StripZeros(s) ==
  IF ~AnyOne(s) THEN <<>>
  ELSE LET p == CHOOSE i \in 1..Len(s) :
                  s[i] = 1 /\ \A j \in 1..(i - 1) : s[j] = 0
       IN  SubSeq(s, p, Len(s))

\* Round the bit string s (s[1] = 1, at least MantissaBits long), whose
\* leading bit has weight 2^e and below which `sticky` says more nonzero
\* bits follow, to a double: to nearest, ties to even.
RoundBits(s, sticky, e) ==
  LET m     == SubSeq(s, 1, MantissaBits)
      rest  == SubSeq(s, MantissaBits + 1, Len(s))
      guard == IF rest = <<>> THEN 0 ELSE rest[1]
      low   == sticky \/ (rest # <<>> /\ AnyOne(Tail(rest)))
      up    == guard = 1 /\ (low \/ m[MantissaBits] = 1)
  IN  IF ~up THEN [e |-> e, m |-> m]
      ELSE IF \A i \in 1..MantissaBits : m[i] = 1
           THEN [e |-> e + 1, m |-> <<1>> \o Zeros(MantissaBits - 1)]
           ELSE [e |-> e, m |-> IncBits(m)]

FromInt(n) ==
  IF n = 0 THEN FZero
  ELSE LET b == IntBits(n)
       IN  [e |-> Len(b) - 1, m |-> b \o Zeros(MantissaBits - Len(b))]

\* a / b for integers a >= 0, b > 0 held as doubles.
FDiv(a, b) ==
  IF a = 0 THEN FZero
  ELSE LET q == a \div b
           r == a % b
       IN  IF q > 0
           THEN LET ib == IntBits(q)
                    k  == MantissaBits + 1 - Len(ib)
                IN  RoundBits(ib \o FracBits(r, b, k), FracRem(r, b, k) # 0,
                              Len(ib) - 1)
           ELSE LET z  == LeadZeros(r, b)
                    r0 == r * Pow2(z)
                IN  RoundBits(FracBits(r0, b, MantissaBits + 1),
                              FracRem(r0, b, MantissaBits + 1) # 0, -(z + 1))

\* the bit string m times the integer k, plus carry, 13 bits at a time
RECURSIVE MulBits(_, _, _)
MulBits(m, k, carry) ==
  IF m = <<>> THEN IntBits(carry)
  ELSE LET n  == Len(m)
           w  == IF n < 13 THEN n ELSE 13
           t  == BitsVal(SubSeq(m, n - w + 1, n)) * k + carry
       IN  MulBits(SubSeq(m, 1, n - w), k, t \div Pow2(w))
             \o PadBits(t % Pow2(w), w)

\* x * k for a double x and an integer k > 0 held as a double.
FMulInt(x, k) ==
  IF x = FZero THEN FZero
  ELSE LET p == StripZeros(MulBits(x.m, k, 0))
       IN  RoundBits(p, FALSE, x.e + (Len(p) - MantissaBits))

(***************************************************************************)
(* The mail sender: src/lib/email.ts                                       *)
(***************************************************************************)
VARIABLES
  emailMetrics,    \* the module-level metrics object
  pc,              \* per call: where the call is suspended
  call,            \* per call: its arguments (mailOptions.to, emailType, ...)
  attempt,         \* per call: the local `attempt`
  lastError,       \* per call: the local `lastError`
  outcome,         \* per call: what the call returned or threw
  transportCalls,  \* per call: transporter.sendMail invocations it made
  waits,           \* per call: the delays it handed to setTimeout, in order
  started,         \* number of sendWithRetry invocations so far
  settled          \* outcomes of the completed invocations, in order

mailVars == <<emailMetrics, pc, call, attempt, lastError, outcome,
              transportCalls, waits, started, settled>>

\* The webhook route's state (its actions follow the mail sender's).
VARIABLES
  req,        \* per request: where it is suspended, its event, its locals,
              \* its response, and the calls it made to its collaborators
  donors,     \* the donors table: rows [email, totalDonations]
  donations   \* the donations table: rows [donorEmail, amount, isRecurring]

hookVars == <<req, donors, donations>>

vars == <<mailVars, hookVars>>

Calls == {"c1", "c2"}                 \* calls that may be in flight together
Null == "null"
Undefined == "undefined"
Errors == {"ECONNECTION", "EENVELOPE"}   \* what transporter.sendMail rejects with
DefaultMaxRetries == 3
DefaultBaseDelay == 1000
\* The messages sent: what sendDonationEmail and sendPaymentFailedEmail pass
\* (lines 207 and 236), the second tried with another base delay.
Messages == { [to |-> "ann@example.org", emailType |-> "donation-receipt",
               baseDelay |-> DefaultBaseDelay],
              [to |-> "bob@example.org", emailType |-> "payment-failed",
               baseDelay |-> 250] }
JitterSpan == 500
\* Math.random() * 500 lies in [0, 500): the least and the (rounded) largest
Jitters == {0, JitterSpan - 1}
\* the maxRetries arguments tried: none, and up to the default
MaxRetriesArgs == 0..DefaultMaxRetries

NoCall == [to |-> Undefined, emailType |-> Undefined,
           maxRetries |-> 0, baseDelay |-> 0]
NoOutcome == [kind |-> "none"]
\* emailMetrics.lastFailed while it is unset
NoSnapshot == [emailType |-> Undefined, recipient |-> Undefined,
               error |-> Undefined]

Hundred == FromInt(100)

\* (100 * totalSent) / totalAttempts in doubles: the product first
ProductFirstTable ==
  [sent \in 0..MaxCalls, total \in 1..MaxCalls |-> FDiv(100 * sent, total)]

updateDeliveryRateProductFirst(m) ==
  LET totalAttempts == m.totalSent + m.totalFailed
  IN  [m EXCEPT !.deliveryRate =
         IF totalAttempts > 0
         THEN ProductFirstTable[m.totalSent, totalAttempts]
         ELSE Hundred]

\* (totalSent / totalAttempts) * 100 in doubles, tabulated once for the
\* counter values the model reaches
RateTable ==
  [sent \in 0..MaxCalls, total \in 1..MaxCalls |->
     FMulInt(FDiv(sent, total), 100)]

\* updateDeliveryRate(), as a function of the metrics object
updateDeliveryRate(m) ==
  LET totalAttempts == m.totalSent + m.totalFailed
  IN  [m EXCEPT !.deliveryRate =
         IF totalAttempts > 0
         THEN RateTable[m.totalSent, totalAttempts]
         ELSE Hundred]

\* totalSent written as 1, as from a read of 0 made before another call's
\* increment, instead of incremented in place
OnSuccessStaleRead(m) == updateDeliveryRate([m EXCEPT !.totalSent = 1])

\* lines 104-105: a transport call resolved
OnSuccess(m) == updateDeliveryRate([m EXCEPT !.totalSent = @ + 1])

SuccessResultFailuresOnly(a) ==
  [kind |-> "returned", success |-> TRUE, attempts |-> a]

\* line 106: the value returned
SuccessResult(a) == [kind |-> "returned", success |-> TRUE, attempts |-> a + 1]

OnExhaustedUncounted(m, c, err) ==
  [m EXCEPT !.lastFailed = [emailType |-> c.emailType,
                            recipient |-> c.to,
                            error     |-> err]]

OnExhaustedNoSnapshot(m, c, err) ==
  updateDeliveryRate([m EXCEPT !.totalFailed = @ + 1])

\* lines 120-127: all attempts failed
OnExhausted(m, c, err) ==
  [updateDeliveryRate([m EXCEPT !.totalFailed = @ + 1])
     EXCEPT !.lastFailed = [emailType |-> c.emailType,
                            recipient |-> c.to,
                            error     |-> err]]

\* line 130: the value thrown
ThrownResult(err) == [kind |-> "thrown", error |-> err]

LoopTestInclusive(a, maxRetries) == a <= maxRetries

LoopTestAtLeastOnce(a, maxRetries) == a = 0 \/ a < maxRetries

\* line 101: the while test
LoopTest(a, maxRetries) == a < maxRetries

\* line 111: whether a failed attempt is followed by a wait
RetryTest(a, maxRetries) == a < maxRetries

RetryDelayNextPower(baseDelay, a, jitter) == baseDelay * Pow2(a) + jitter

\* line 112: baseDelay * Math.pow(2, attempt - 1) + Math.random() * 500
RetryDelay(baseDelay, a, jitter) == baseDelay * Pow2(a - 1) + jitter

\* The while test of call c (arguments cl) with `attempt` = a, `lastError` =
\* err and n transport calls made so far: either the next
\* transporter.sendMail call is made, or the loop is left and the call
\* reports the exhausted failure (lines 119-130).
LoopHead(c, cl, a, err, n) ==
  /\ attempt' = [attempt EXCEPT ![c] = a]
  /\ lastError' = [lastError EXCEPT ![c] = err]
  /\ IF LoopTest(a, cl.maxRetries)
     THEN /\ transportCalls' = [transportCalls EXCEPT ![c] = n + 1]
          /\ pc' = [pc EXCEPT ![c] = "sending"]
          /\ outcome' = [outcome EXCEPT ![c] = NoOutcome]
          /\ UNCHANGED <<emailMetrics, settled>>
     ELSE /\ transportCalls' = [transportCalls EXCEPT ![c] = n]
          /\ emailMetrics' = OnExhausted(emailMetrics, cl, err)
          /\ pc' = [pc EXCEPT ![c] = "thrown"]
          /\ outcome' = [outcome EXCEPT ![c] = ThrownResult(err)]
          /\ settled' = Append(settled, "thrown")

\* sendWithRetry(mailOptions, emailType, maxRetries, baseDelay) is invoked
\* (lines 92-103): the call runs to its first await.
SendWithRetry(c, msg, maxRetries) ==
  /\ pc[c] \in {"idle", "returned", "thrown"}
  /\ started < MaxCalls
  /\ started' = started + 1
  /\ LET cl == [to |-> msg.to, emailType |-> msg.emailType,
                maxRetries |-> maxRetries, baseDelay |-> msg.baseDelay]
     IN  /\ call' = [call EXCEPT ![c] = cl]
         /\ waits' = [waits EXCEPT ![c] = <<>>]
         /\ LoopHead(c, cl, 0, Null, 0)
  /\ UNCHANGED hookVars

\* await transporter.sendMail(mailOptions) resolves (lines 103-106)
SendMailResolves(c) ==
  /\ pc[c] = "sending"
  /\ emailMetrics' = OnSuccess(emailMetrics)
  /\ outcome' = [outcome EXCEPT ![c] = SuccessResult(attempt[c])]
  /\ pc' = [pc EXCEPT ![c] = "returned"]
  /\ settled' = Append(settled, "returned")
  /\ UNCHANGED <<call, attempt, lastError, transportCalls, waits, started>>
  /\ UNCHANGED hookVars

\* await transporter.sendMail(mailOptions) rejects with err (lines 107-116,
\* and on to the while test when no wait follows)
SendMailRejects(c, err, jitter) ==
  /\ pc[c] = "sending"
  /\ LET a == attempt[c] + 1
     IN  IF RetryTest(a, call[c].maxRetries)
         THEN /\ attempt' = [attempt EXCEPT ![c] = a]
              /\ lastError' = [lastError EXCEPT ![c] = err]
              /\ waits' = [waits EXCEPT ![c] =
                             Append(@, RetryDelay(call[c].baseDelay, a, jitter))]
              /\ pc' = [pc EXCEPT ![c] = "waiting"]
              /\ UNCHANGED <<emailMetrics, outcome, transportCalls, settled>>
         ELSE /\ LoopHead(c, call[c], a, err, transportCalls[c])
              /\ UNCHANGED waits
  /\ UNCHANGED <<call, started>>
  /\ UNCHANGED hookVars

\* the setTimeout promise of line 114 resolves: back to the while test
TimerFires(c) ==
  /\ pc[c] = "waiting"
  /\ LoopHead(c, call[c], attempt[c], lastError[c], transportCalls[c])
  /\ UNCHANGED <<call, waits, started>>
  /\ UNCHANGED hookVars

MailNext ==
  \E c \in Calls :
    \/ \E msg \in Messages, mr \in MaxRetriesArgs : SendWithRetry(c, msg, mr)
    \/ SendMailResolves(c)
    \/ \E err \in Errors, j \in Jitters : SendMailRejects(c, err, j)
    \/ TimerFires(c)

(***************************************************************************)
(* The webhook route: POST and its handlers.  A request is a record; the   *)
(* storage tables are shared by the requests in flight.                    *)
(***************************************************************************)
Requests == {"r1", "r2"}              \* requests that may be in flight together

\* event.type values: the nine of the switch, and one it does not list
PaymentIntentSucceeded == "payment_intent.succeeded"
InvoicePaymentSucceeded == "invoice.payment_succeeded"
SubscriptionCreated == "customer.subscription.created"
SubscriptionUpdated == "customer.subscription.updated"
SubscriptionDeleted == "customer.subscription.deleted"
InvoicePaymentFailed == "invoice.payment_failed"
InvoicePaymentActionRequired == "invoice.payment_action_required"
SubscriptionPastDue == "customer.subscription.past_due"
SubscriptionUnpaid == "customer.subscription.unpaid"
ChargeRefunded == "charge.refunded"

MetaEmail == "ann@example.org"      \* metadata.donorEmail / invoice.customer_email
RemoteEmail == "bob@example.org"    \* charge.billing_details.email / customer.email
\* amounts in cents (paymentIntent.amount, invoice.amount_paid): whole
\* dollars, so that amount / 100 is exact
Amounts == {0, 500, 2500}

\* The request: the signature header's state and the fields of
\* event.data.object the handlers read.
\*   subscription: metadata.subscriptionId (payment intent) or
\*                 invoice.subscription is set
\*   invoice:      paymentIntent.invoice is set
\*   latestCharge: paymentIntent.latest_charge is set
\*   email:        metadata.donorEmail, or invoice.customer_email ("" unset)
\*   paymentIntent: invoice.payment_intent is set
\*   amount:       paymentIntent.amount, invoice.amount_paid
Event(sig, type, subscription, invoice, latestCharge, email, paymentIntent, amount) ==
  [sig |-> sig, type |-> type, subscription |-> subscription,
   invoice |-> invoice, latestCharge |-> latestCharge, email |-> email,
   paymentIntent |-> paymentIntent, amount |-> amount]

Plain(sig, type) == Event(sig, type, FALSE, FALSE, FALSE, "", FALSE, 500)

Events ==
  { Event("valid", PaymentIntentSucceeded, TRUE, FALSE, TRUE, MetaEmail, FALSE, 500),
    Event("valid", PaymentIntentSucceeded, FALSE, TRUE, TRUE, MetaEmail, FALSE, 500) }
  \cup { Event("valid", PaymentIntentSucceeded, FALSE, FALSE, lc, em, FALSE, am) :
           lc \in BOOLEAN, em \in {"", MetaEmail}, am \in Amounts }
  \cup { Event("valid", InvoicePaymentSucceeded, FALSE, FALSE, FALSE, MetaEmail, TRUE, 500) }
  \cup { Event("valid", InvoicePaymentSucceeded, TRUE, FALSE, FALSE, em, pi, am) :
           em \in {"", MetaEmail}, pi \in BOOLEAN, am \in Amounts }
  \cup { Event("valid", InvoicePaymentFailed, sub, FALSE, FALSE, "", FALSE, 500) :
           sub \in BOOLEAN }
  \cup { Plain("valid", t) :
           t \in {SubscriptionCreated, SubscriptionUpdated, SubscriptionDeleted,
                  InvoicePaymentActionRequired, SubscriptionPastDue,
                  SubscriptionUnpaid, ChargeRefunded} }
  \cup { Event(sig, t, FALSE, FALSE, TRUE, MetaEmail, FALSE, 500) :
           sig \in {"missing", "invalid"},
           t \in {PaymentIntentSucceeded, ChargeRefunded} }

NoEvent == Plain("none", "none")

\* What stripe.customers.retrieve resolves to: a live customer with or
\* without an email, or a deleted one.
Customers == { [deleted |-> FALSE, email |-> RemoteEmail],
               [deleted |-> FALSE, email |-> ""],
               [deleted |-> TRUE, email |-> ""] }
\* charge.billing_details.email of the charge stripe.charges.retrieve
\* resolves to
BillingEmails == {"", RemoteEmail}

NoResponse == [status |-> 0, received |-> FALSE, error |-> ""]
\* NextResponse.json({ received: true })
Received == [status |-> 200, received |-> TRUE, error |-> ""]
\* NextResponse.json({ received: true, error: 'Missing email' })
ReceivedMissingEmail == [status |-> 200, received |-> TRUE, error |-> "Missing email"]
\* lines 46-49, 58-61, 93-96
MissingSignature == [status |-> 400, received |-> FALSE, error |-> "Missing Stripe signature"]
InvalidSignature == [status |-> 400, received |-> FALSE, error |-> "Invalid signature"]
ProcessingError == [status |-> 500, received |-> FALSE, error |-> "Failed to process webhook"]

NewRequest ==
  [pc |-> "idle", event |-> NoEvent, handlers |-> <<>>, response |-> NoResponse,
   email |-> "", amount |-> 0, isRecurring |-> FALSE, found |-> FALSE,
   total |-> 0,
   stripeCalls |-> 0, dbReads |-> 0, dbWrites |-> 0, mailCalls |-> 0,
   mailsSent |-> 0]

\* the request returns resp
Return(q, resp) == [q EXCEPT !.pc = "done", !.response = resp]

\* an exception leaves the handler: the catch of POST (lines 91-97)
Uncaught(q) == Return(q, ProcessingError)

\* the request suspends at an await
Await(q, at) == [q EXCEPT !.pc = at]

\* saveDonationRecord is entered (lines 454-463): the validation, then the
\* donor lookup is issued.  Both handlers call it inside a try whose catch
\* logs and falls through to the acknowledgement (lines 161-165, 256-260).
saveDonationRecord(q, email, amount, isRecurring) ==
  LET d == [q EXCEPT !.email = email, !.amount = amount,
                     !.isRecurring = isRecurring]
  IN  IF email = "" \/ amount = 0
      THEN Return(d, Received)
      ELSE Await([d EXCEPT !.dbReads = @ + 1], "save_find")

\* the same without the return of lines 132-135 and the validation of lines
\* 455-457: the donor lookup is issued whatever the email
PaymentIntentWithChargeUnchecked(q, billingEmail) ==
  LET email == IF q.event.email # "" THEN q.event.email ELSE billingEmail
  IN  Await([q EXCEPT !.email = email, !.amount = q.event.amount \div 100,
                      !.dbReads = @ + 1], "save_find")

\* handlePaymentIntentSucceeded from the charge on (lines 118-144)
PaymentIntentWithCharge(q, billingEmail) ==
  LET email == IF q.event.email # "" THEN q.event.email ELSE billingEmail
  IN  IF email = ""
      THEN Return(q, ReceivedMissingEmail)
      ELSE saveDonationRecord(q, email, q.event.amount \div 100, FALSE)

\* the same without the skip of lines 108-111
handlePaymentIntentSucceededNoSkip(q) ==
  IF q.event.latestCharge
  THEN Await([q EXCEPT !.stripeCalls = @ + 1], "pi_charge")
  ELSE PaymentIntentWithCharge(q, "")

\* handlePaymentIntentSucceeded up to its first await (lines 101-116)
handlePaymentIntentSucceeded(q) ==
  IF q.event.subscription \/ q.event.invoice
  THEN Return(q, Received)
  ELSE IF q.event.latestCharge
       THEN Await([q EXCEPT !.stripeCalls = @ + 1], "pi_charge")
       ELSE PaymentIntentWithCharge(q, "")

\* handleInvoicePaymentSucceeded up to its first await (lines 168-183):
\* subscriptions.retrieve and customers.retrieve are issued together
handleInvoicePaymentSucceeded(q) ==
  IF ~q.event.subscription
  THEN Return(q, Received)
  ELSE Await([q EXCEPT !.stripeCalls = @ + 2], "inv_lookup")

\* handleInvoicePaymentSucceeded from the payment method on (lines 216-238)
InvoiceSave(q) ==
  saveDonationRecord(q, q.email, q.event.amount \div 100, TRUE)

\* handleInvoicePaymentSucceeded once both lookups resolved (lines 185-214)
InvoiceWithCustomer(q, customer) ==
  LET known == ~customer.deleted \/ q.event.email # ""
      email == IF q.event.email # "" THEN q.event.email
               ELSE IF ~customer.deleted THEN customer.email ELSE ""
      d     == [q EXCEPT !.email = email]
  IN  IF ~known THEN Return(q, ReceivedMissingEmail)
      ELSE IF q.event.paymentIntent
           THEN Await([d EXCEPT !.stripeCalls = @ + 1], "inv_pi")
           ELSE InvoiceSave(d)

\* handleSubscriptionCreated, -Deleted, -PastDue, -Unpaid up to the await of
\* customers.retrieve, which each wraps in try/catch
handleSubscriptionWithCustomer(q) ==
  Await([q EXCEPT !.stripeCalls = @ + 1], "sub_customer")

\* handleSubscriptionUpdated, handlePaymentActionRequired: log and return
handleLogOnly(q) == Return(q, Received)

\* handlePaymentFailed up to its first await (lines 321-332)
handlePaymentFailed(q) ==
  Await([q EXCEPT !.stripeCalls = @ + 1], "pf_customer")

\* handlePaymentFailed once the customer is known or the lookup failed
\* (lines 333-344): email is "" when there is none
PaymentFailedWithCustomer(q, email) ==
  IF email # "" /\ q.event.subscription
  THEN Await([q EXCEPT !.email = email, !.stripeCalls = @ + 1], "pf_subscription")
  ELSE Return(q, Received)

\* the switch without its last two cases (lines 82-86)
HandlerForFirstSeven(type) ==
  CASE type = PaymentIntentSucceeded -> "handlePaymentIntentSucceeded"
    [] type = InvoicePaymentSucceeded -> "handleInvoicePaymentSucceeded"
    [] type = SubscriptionCreated -> "handleSubscriptionCreated"
    [] type = SubscriptionUpdated -> "handleSubscriptionUpdated"
    [] type = SubscriptionDeleted -> "handleSubscriptionDeleted"
    [] type = InvoicePaymentFailed -> "handlePaymentFailed"
    [] type = InvoicePaymentActionRequired -> "handlePaymentActionRequired"
    [] OTHER -> "none"

\* the switch of POST (lines 67-90): the handler of an event type, "none"
\* for the default branch
HandlerFor(type) ==
  CASE type = PaymentIntentSucceeded -> "handlePaymentIntentSucceeded"
    [] type = InvoicePaymentSucceeded -> "handleInvoicePaymentSucceeded"
    [] type = SubscriptionCreated -> "handleSubscriptionCreated"
    [] type = SubscriptionUpdated -> "handleSubscriptionUpdated"
    [] type = SubscriptionDeleted -> "handleSubscriptionDeleted"
    [] type = InvoicePaymentFailed -> "handlePaymentFailed"
    [] type = InvoicePaymentActionRequired -> "handlePaymentActionRequired"
    [] type = SubscriptionPastDue -> "handleSubscriptionPastDue"
    [] type = SubscriptionUnpaid -> "handleSubscriptionUnpaid"
    [] OTHER -> "none"

\* the handler h runs to its first await or to its return
RunHandler(q, h) ==
  LET d == [q EXCEPT !.handlers = Append(@, h)]
  IN  CASE h = "handlePaymentIntentSucceeded" -> handlePaymentIntentSucceeded(d)
        [] h = "handleInvoicePaymentSucceeded" -> handleInvoicePaymentSucceeded(d)
        [] h = "handlePaymentFailed" -> handlePaymentFailed(d)
        [] h \in {"handleSubscriptionUpdated", "handlePaymentActionRequired"} ->
             handleLogOnly(d)
        [] OTHER -> handleSubscriptionWithCustomer(d)

\* constructEvent's exception ignored
SignatureUnchecked(sig) == TRUE

\* lines 45-62: the signature header is present and constructEvent accepts it
SignatureVerified(sig) == sig = "valid"

\* POST up to the handler's first await (lines 41-97)
Dispatch(q) ==
  IF q.event.sig = "missing" THEN Return(q, MissingSignature)
  ELSE IF ~SignatureVerified(q.event.sig) THEN Return(q, InvalidSignature)
  ELSE LET h == HandlerFor(q.event.type)
       IN  IF h = "none" THEN Return(q, Received) ELSE RunHandler(q, h)

Set(r, q) == req' = [req EXCEPT ![r] = q] /\ UNCHANGED mailVars

\* a request arrives
POST(r, ev) ==
  /\ req[r].pc = "idle"
  /\ Set(r, Dispatch([req[r] EXCEPT !.event = ev]))
  /\ UNCHANGED <<donors, donations>>

\* stripe.charges.retrieve resolves (line 115)
ChargeResolves(r, billingEmail) ==
  /\ req[r].pc = "pi_charge"
  /\ Set(r, PaymentIntentWithCharge(req[r], billingEmail))
  /\ UNCHANGED <<donors, donations>>

\* stripe.charges.retrieve rejects: nothing in the handler catches it
ChargeRejects(r) ==
  /\ req[r].pc = "pi_charge"
  /\ Set(r, Uncaught(req[r]))
  /\ UNCHANGED <<donors, donations>>

\* both lookups of line 180 resolve
InvoiceLookupResolves(r, customer) ==
  /\ req[r].pc = "inv_lookup"
  /\ Set(r, InvoiceWithCustomer(req[r], customer))
  /\ UNCHANGED <<donors, donations>>

\* one of the lookups of line 180 rejects: nothing in the handler catches it
InvoiceLookupRejects(r) ==
  /\ req[r].pc = "inv_lookup"
  /\ Set(r, Uncaught(req[r]))
  /\ UNCHANGED <<donors, donations>>

\* stripe.paymentIntents.retrieve resolves or rejects (lines 205-213): the
\* catch keeps the default payment method, and the handler goes on
InvoicePaymentIntentSettles(r) ==
  /\ req[r].pc = "inv_pi"
  /\ Set(r, InvoiceSave(req[r]))
  /\ UNCHANGED <<donors, donations>>

\* the customers.retrieve of a subscription handler resolves or rejects:
\* logged either way
SubscriptionCustomerSettles(r) ==
  /\ req[r].pc = "sub_customer"
  /\ Set(r, Return(req[r], Received))
  /\ UNCHANGED <<donors, donations>>

\* the customers.retrieve of handlePaymentFailed resolves (lines 332-336)
FailedCustomerResolves(r, customer) ==
  /\ req[r].pc = "pf_customer"
  /\ Set(r, PaymentFailedWithCustomer(req[r],
              IF customer.deleted THEN "" ELSE customer.email))
  /\ UNCHANGED <<donors, donations>>

\* ... or rejects (lines 337-339)
FailedCustomerRejects(r) ==
  /\ req[r].pc = "pf_customer"
  /\ Set(r, PaymentFailedWithCustomer(req[r], ""))
  /\ UNCHANGED <<donors, donations>>

\* the subscriptions.retrieve of handlePaymentFailed resolves: the mail is
\* handed to sendPaymentFailedEmail (lines 344-359)
FailedSubscriptionResolves(r) ==
  /\ req[r].pc = "pf_subscription"
  /\ Set(r, Await([req[r] EXCEPT !.mailCalls = @ + 1], "pf_mail"))
  /\ UNCHANGED <<donors, donations>>

\* ... or rejects (lines 362-364)
FailedSubscriptionRejects(r) ==
  /\ req[r].pc = "pf_subscription"
  /\ Set(r, Return(req[r], Received))
  /\ UNCHANGED <<donors, donations>>

\* the rows of the donors table whose email is `email`
DonorRows(email) == {i \in DOMAIN donors : donors[i].email = email}

\* the same with totalDonations: data.amount, the donor's earlier total left
\* out of line 468
DonorLookupResolvesAmountOnly(r) ==
  /\ req[r].pc = "save_find"
  /\ LET q     == req[r]
         found == DonorRows(q.email) # {}
     IN  Set(r, Await([q EXCEPT !.found = found, !.total = q.amount,
                                !.dbWrites = @ + 1],
                      IF found THEN "save_update" ELSE "save_create"))
  /\ UNCHANGED <<donors, donations>>

\* xata.db.donors.filter({ email }).getFirst() resolves (lines 461-480): the
\* new lifetime total is computed from the row read, and the donor write is
\* issued
DonorLookupResolves(r) ==
  /\ req[r].pc = "save_find"
  /\ LET q     == req[r]
         rows  == DonorRows(q.email)
         found == rows # {}
         first == CHOOSE i \in rows : \A j \in rows : i <= j
         prev  == IF found THEN donors[first].totalDonations ELSE 0
     IN  Set(r, Await([q EXCEPT !.found = found, !.total = prev + q.amount,
                                !.dbWrites = @ + 1],
                      IF found THEN "save_update" ELSE "save_create"))
  /\ UNCHANGED <<donors, donations>>

\* the handlers without the try around saveDonationRecord: the exception
\* reaches the catch of POST
StorageFailsUncaught(r) ==
  /\ req[r].pc \in {"save_find", "save_update", "save_create", "save_donation"}
  /\ Set(r, Uncaught(req[r]))
  /\ UNCHANGED <<donors, donations>>

\* saveDonationRecord without the throw of its catch (line 514): the
\* handler goes on to sendDonationEmail
StorageFailsSwallowed(r) ==
  /\ req[r].pc \in {"save_find", "save_update", "save_create", "save_donation"}
  /\ Set(r, Await([req[r] EXCEPT !.mailCalls = @ + 1], "mail"))
  /\ UNCHANGED <<donors, donations>>

\* a storage call inside saveDonationRecord rejects, or resolves to nothing:
\* saveDonationRecord throws (lines 482-484, 507-515), the handler's catch
\* logs it and the handler acknowledges
StorageFails(r) ==
  /\ req[r].pc \in {"save_find", "save_update", "save_create", "save_donation"}
  /\ Set(r, Return(req[r], Received))
  /\ UNCHANGED <<donors, donations>>

\* xata.db.donors.update resolves (line 474): the donor with that email now
\* holds the fields of donorUpdate; the donation create is issued
DonorUpdateResolves(r) ==
  /\ req[r].pc = "save_update"
  /\ donors' = [i \in DOMAIN donors |->
                  IF donors[i].email = req[r].email
                  THEN [donors[i] EXCEPT !.totalDonations = req[r].total]
                  ELSE donors[i]]
  /\ Set(r, Await([req[r] EXCEPT !.dbWrites = @ + 1], "save_donation"))
  /\ UNCHANGED donations

\* xata.db.donors.create resolves (lines 476-479)
DonorCreateResolves(r) ==
  /\ req[r].pc = "save_create"
  /\ donors' = Append(donors, [email |-> req[r].email,
                               totalDonations |-> req[r].total])
  /\ Set(r, Await([req[r] EXCEPT !.dbWrites = @ + 1], "save_donation"))
  /\ UNCHANGED donations

\* xata.db.donations.create resolves (lines 505-511); back in the handler
\* the mail is handed to sendDonationEmail (lines 147, 241)
DonationCreateResolves(r) ==
  /\ req[r].pc = "save_donation"
  /\ donations' = Append(donations, [donorEmail |-> req[r].email,
                                     amount |-> req[r].amount,
                                     isRecurring |-> req[r].isRecurring])
  /\ Set(r, Await([req[r] EXCEPT !.mailCalls = @ + 1], "mail"))
  /\ UNCHANGED donors

\* sendDonationEmail / sendPaymentFailedEmail resolves
MailResolves(r) ==
  /\ req[r].pc \in {"mail", "pf_mail"}
  /\ Set(r, Return([req[r] EXCEPT !.mailsSent = @ + 1], Received))
  /\ UNCHANGED <<donors, donations>>

\* the handlers without the catch around the send: the exception reaches
\* the catch of POST
MailRejectsUncaught(r) ==
  /\ req[r].pc \in {"mail", "pf_mail"}
  /\ Set(r, Uncaught(req[r]))
  /\ UNCHANGED <<donors, donations>>

\* ... or throws (sendWithRetry exhausted its retries, or rendering failed):
\* caught by the handler (lines 161-163, 256-258, 362-364)
MailRejects(r) ==
  /\ req[r].pc \in {"mail", "pf_mail"}
  /\ Set(r, Return(req[r], Received))
  /\ UNCHANGED <<donors, donations>>

HookNext ==
  \E r \in Requests :
    \/ \E ev \in Events : POST(r, ev)
    \/ \E b \in BillingEmails : ChargeResolves(r, b)
    \/ ChargeRejects(r)
    \/ \E cu \in Customers : InvoiceLookupResolves(r, cu)
    \/ InvoiceLookupRejects(r)
    \/ InvoicePaymentIntentSettles(r)
    \/ SubscriptionCustomerSettles(r)
    \/ \E cu \in Customers : FailedCustomerResolves(r, cu)
    \/ FailedCustomerRejects(r)
    \/ FailedSubscriptionResolves(r)
    \/ FailedSubscriptionRejects(r)
    \/ DonorLookupResolves(r)
    \/ StorageFails(r)
    \/ DonorUpdateResolves(r)
    \/ DonorCreateResolves(r)
    \/ DonationCreateResolves(r)
    \/ MailResolves(r)
    \/ MailRejects(r)

InitialMetrics ==
  [totalSent |-> 0, totalFailed |-> 0, lastFailed |-> NoSnapshot,
   deliveryRate |-> Hundred]

InitialTotal == 10
\* the donors table at the start: empty, or holding a donor from an earlier
\* payment
InitialDonors ==
  {<<>>, <<[email |-> MetaEmail, totalDonations |-> InitialTotal]>>}

\* process start: zeroed metrics, nothing in flight, empty tables
Init ==
  /\ emailMetrics = InitialMetrics
  /\ pc = [c \in Calls |-> "idle"]
  /\ call = [c \in Calls |-> NoCall]
  /\ attempt = [c \in Calls |-> 0]
  /\ lastError = [c \in Calls |-> Null]
  /\ outcome = [c \in Calls |-> NoOutcome]
  /\ transportCalls = [c \in Calls |-> 0]
  /\ waits = [c \in Calls |-> <<>>]
  /\ started = 0
  /\ settled = <<>>
  /\ req = [r \in Requests |-> NewRequest]
  /\ donors = <<>>
  /\ donations = <<>>

\* the same, with the donors table as earlier payments may have left it
HookInit ==
  /\ emailMetrics = InitialMetrics
  /\ pc = [c \in Calls |-> "idle"]
  /\ call = [c \in Calls |-> NoCall]
  /\ attempt = [c \in Calls |-> 0]
  /\ lastError = [c \in Calls |-> Null]
  /\ outcome = [c \in Calls |-> NoOutcome]
  /\ transportCalls = [c \in Calls |-> 0]
  /\ waits = [c \in Calls |-> <<>>]
  /\ started = 0
  /\ settled = <<>>
  /\ req = [r \in Requests |-> NewRequest]
  /\ donors \in InitialDonors
  /\ donations = <<>>

\* the mail sender alone
Spec == Init /\ [][MailNext]_vars

\* the webhook route alone
HookSpec == HookInit /\ [][HookNext]_vars

\* the webhook route alone, over storage that starts empty
EmptyStorageSpec == Init /\ [][HookNext]_vars

(***************************************************************************)
(* Properties of the mail sender                                           *)
(***************************************************************************)
Count(seq, v) == Cardinality({i \in DOMAIN seq : seq[i] = v})

TotalCompleted == emailMetrics.totalSent + emailMetrics.totalFailed

\* C1: in every state (a call's counter increment and its return are one
\* uninterrupted segment, so no state lies between them) totalSent +
\* totalFailed is the number of completed sendWithRetry calls, totalSent
\* counting those that returned and totalFailed those that threw.
C1_CountersMatchCompleted ==
  /\ TotalCompleted = Len(settled)
  /\ emailMetrics.totalSent = Count(settled, "returned")
  /\ emailMetrics.totalFailed = Count(settled, "thrown")

C1_Witness ==
  /\ Len(settled) = MaxCalls
  /\ emailMetrics.totalSent >= 1
  /\ emailMetrics.totalFailed >= 1

\* C2 as stated: deliveryRate is 100 before any send completes and
\* 100 * totalSent / (totalSent + totalFailed) after every completed send.
C2_RateIsProductFirst ==
  emailMetrics.deliveryRate =
    IF TotalCompleted = 0 THEN Hundred
    ELSE ProductFirstTable[emailMetrics.totalSent, TotalCompleted]

IsPowerOfTwo(n) == \E k \in 0..n : Pow2(k) = n

\* C2 amended: deliveryRate is 100 before any send completes; after every
\* completed send it is the double (totalSent / (totalSent + totalFailed)) *
\* 100, the quotient rounded before it is multiplied, which is exactly 100
\* when nothing failed, exactly 0 when nothing was sent, and equals 100 *
\* totalSent / (totalSent + totalFailed) when the total is a power of two.
C2_RateIsQuotientTimes100 ==
  LET sent  == emailMetrics.totalSent
      total == TotalCompleted
      rate  == emailMetrics.deliveryRate
  IN  /\ total = 0 => rate = Hundred
      /\ total > 0 => rate = RateTable[sent, total]
      /\ (total > 0 /\ emailMetrics.totalFailed = 0) => rate = Hundred
      /\ (total > 0 /\ sent = 0) => rate = FZero
      /\ (total > 0 /\ IsPowerOfTwo(total))
           => rate = ProductFirstTable[sent, total]

C2_Witness ==
  /\ emailMetrics.totalSent = 1
  /\ emailMetrics.totalFailed = 2
  /\ emailMetrics.deliveryRate # ProductFirstTable[1, 3]

\* C3: the step in which a call's k-th transport call succeeds (its first
\* k-1 having failed) returns success with attempts = k, 1 <= k <=
\* maxRetries, adds 1 to totalSent and leaves totalFailed and lastFailed as
\* they were.
C3_SuccessAtAttemptK ==
  [][\A c \in Calls :
       (pc[c] = "sending" /\ pc'[c] = "returned") =>
         /\ outcome'[c].kind = "returned"
         /\ outcome'[c].success
         /\ outcome'[c].attempts = transportCalls[c]
         /\ outcome'[c].attempts \in 1..call[c].maxRetries
         /\ emailMetrics'.totalSent = emailMetrics.totalSent + 1
         /\ emailMetrics'.totalFailed = emailMetrics.totalFailed
         /\ emailMetrics'.lastFailed = emailMetrics.lastFailed]_vars

\* maxRetries = 3, two failures, then success: attempts = 3
C3_Witness ==
  \E c \in Calls :
    /\ pc[c] = "returned"
    /\ call[c].maxRetries = DefaultMaxRetries
    /\ Len(waits[c]) = 2
    /\ outcome[c].attempts = 3
    /\ emailMetrics.totalSent = 1
    /\ emailMetrics.totalFailed = 0

\* C4: the step in which the last of a call's maxRetries >= 1 transport
\* calls fails with err adds 1 to totalFailed, leaves totalSent, records
\* lastFailed = (the call's emailType, its mailOptions.to, err) and throws
\* err.
C4_ExhaustedRecordsAndThrows ==
  [][\A c \in Calls, err \in Errors, j \in Jitters :
       (SendMailRejects(c, err, j) /\ pc'[c] # "waiting") =>
         /\ transportCalls[c] = call[c].maxRetries
         /\ pc'[c] = "thrown"
         /\ outcome'[c] = [kind |-> "thrown", error |-> err]
         /\ emailMetrics'.totalFailed = emailMetrics.totalFailed + 1
         /\ emailMetrics'.totalSent = emailMetrics.totalSent
         /\ emailMetrics'.lastFailed = [emailType |-> call[c].emailType,
                                        recipient |-> call[c].to,
                                        error     |-> err]]_vars

\* three failures, the last with another error than the first two, while
\* the other call is in flight to another recipient
C4_Witness ==
  \E c \in Calls, d \in Calls :
    /\ pc[c] = "thrown"
    /\ transportCalls[c] = DefaultMaxRetries
    /\ emailMetrics.lastFailed # NoSnapshot
    /\ emailMetrics.lastFailed.recipient = call[c].to
    /\ emailMetrics.lastFailed.error = outcome[c].error
    /\ pc[d] = "sending"
    /\ call[d].to # call[c].to

\* C5: a call never makes more than maxRetries transport calls; it has made
\* exactly maxRetries when it throws; the step in which an attempt succeeds
\* makes none, and a returned call makes none until it is invoked anew.
C5_TransportCallsBounded ==
  [][\A c \in Calls :
       /\ transportCalls'[c] <= call'[c].maxRetries
       /\ (pc'[c] = "thrown" => transportCalls'[c] = call'[c].maxRetries)
       /\ (pc[c] = "sending" /\ pc'[c] = "returned"
             => transportCalls'[c] = transportCalls[c])
       /\ (pc[c] = "returned" /\ transportCalls'[c] # transportCalls[c]
             => started' = started + 1)]_vars

C5_Witness ==
  \E c \in Calls, d \in Calls :
    /\ pc[c] = "thrown" /\ transportCalls[c] = DefaultMaxRetries
    /\ pc[d] = "returned" /\ transportCalls[d] = 2
    /\ call[d].maxRetries = DefaultMaxRetries

RECURSIVE SumSeq(_)
SumSeq(s) == IF s = <<>> THEN 0 ELSE s[1] + SumSeq(Tail(s))

\* C6: the a-th wait of a call follows its a-th failed attempt, a <
\* maxRetries, and lasts between baseDelay * 2^(a-1) and baseDelay * 2^(a-1)
\* + 500; so the waits before attempt k sum to at most the sum of these
\* upper limits.  A call in flight has waited once per earlier attempt;
\* a call that returned or threw has waited once per attempt but its last.
C6_BackoffDelays ==
  \A c \in Calls :
    LET w == waits[c]
        b == call[c].baseDelay
    IN  /\ \A a \in 1..Len(w) :
             /\ a < call[c].maxRetries
             /\ b * 2^(a - 1) <= w[a]
             /\ w[a] <= b * 2^(a - 1) + 500
        /\ SumSeq(w) <= SumSeq([a \in 1..Len(w) |-> b * 2^(a - 1) + 500])
        /\ pc[c] = "waiting" => Len(w) = transportCalls[c]
        /\ pc[c] \in {"sending", "returned"} => Len(w) = transportCalls[c] - 1
        /\ (pc[c] = "thrown" /\ transportCalls[c] > 0)
             => Len(w) = transportCalls[c] - 1
        /\ (pc[c] = "thrown" /\ transportCalls[c] = 0) => w = <<>>

\* the default delays at their largest: 1000 + 499, then 2000 + 499
C6_Witness ==
  \E c \in Calls :
    /\ pc[c] = "thrown"
    /\ call[c].baseDelay = DefaultBaseDelay
    /\ waits[c] = <<DefaultBaseDelay + 499, 2 * DefaultBaseDelay + 499>>

\* C7: invoking sendWithRetry with maxRetries = 0 makes no transport call
\* and at once adds 1 to totalFailed (totalSent unchanged), records the
\* last-failure snapshot for the message and throws.
C7_ZeroRetriesFailsAtOnce ==
  [][\A c \in Calls, msg \in Messages :
       SendWithRetry(c, msg, 0) =>
         /\ pc'[c] = "thrown"
         /\ outcome'[c].kind = "thrown"
         /\ transportCalls'[c] = 0
         /\ emailMetrics'.totalFailed = emailMetrics.totalFailed + 1
         /\ emailMetrics'.totalSent = emailMetrics.totalSent
         /\ emailMetrics'.lastFailed # NoSnapshot
         /\ emailMetrics'.lastFailed.emailType = msg.emailType
         /\ emailMetrics'.lastFailed.recipient = msg.to]_vars

C7_Witness ==
  \E c \in Calls :
    /\ call[c].maxRetries = 0
    /\ pc[c] = "thrown"
    /\ transportCalls[c] = 0
    /\ emailMetrics.totalFailed = 1
    /\ emailMetrics.totalSent = 0
    /\ emailMetrics.lastFailed # NoSnapshot
    /\ emailMetrics.lastFailed.recipient = call[c].to

(***************************************************************************)
(* Properties of the webhook route                                         *)
(***************************************************************************)
RecognizedTypes ==
  {"payment_intent.succeeded", "invoice.payment_succeeded",
   "customer.subscription.created", "customer.subscription.updated",
   "customer.subscription.deleted", "invoice.payment_failed",
   "invoice.payment_action_required", "customer.subscription.past_due",
   "customer.subscription.unpaid"}

NoCollaboratorCalls(q) ==
  /\ q.stripeCalls = 0
  /\ q.dbReads = 0
  /\ q.dbWrites = 0
  /\ q.mailCalls = 0

\* C8: a request whose signature verified has run exactly one handler when
\* its event type is one of the nine, and none otherwise; with a type
\* outside the nine it has returned { received: true } with status 200
\* without any processor, storage or mail call.
C8_DispatchExactlyOne ==
  \A r \in Requests :
    LET q == req[r]
    IN  q.event.sig = "valid" =>
          /\ q.event.type \in RecognizedTypes => Len(q.handlers) = 1
          /\ q.event.type \notin RecognizedTypes =>
               /\ q.handlers = <<>>
               /\ q.pc = "done"
               /\ q.response = [status |-> 200, received |-> TRUE, error |-> ""]
               /\ NoCollaboratorCalls(q)

\* an unlisted type is acknowledged while the other request, of the last
\* listed type, is inside its handler
C8_Witness ==
  \E r \in Requests, o \in Requests :
    /\ req[r].event.sig = "valid"
    /\ req[r].event.type = "charge.refunded"
    /\ req[r].response.status = 200
    /\ req[o].event.type = "customer.subscription.unpaid"
    /\ req[o].handlers = <<"handleSubscriptionUnpaid">>
    /\ req[o].pc = "sub_customer"

\* C9: a request whose signature header is missing or does not verify has
\* returned status 400 and has run no handler and made no processor,
\* storage or mail call.
C9_RejectedBeforeAnyHandler ==
  \A r \in Requests :
    LET q == req[r]
    IN  q.event.sig \in {"missing", "invalid"} =>
          /\ q.pc = "done"
          /\ q.response.status = 400
          /\ ~q.response.received
          /\ q.handlers = <<>>
          /\ NoCollaboratorCalls(q)

\* both rejections, of events of a type that has a handler
C9_Witness ==
  \E r \in Requests, o \in Requests :
    /\ req[r].event.sig = "invalid"
    /\ req[r].event.type = "payment_intent.succeeded"
    /\ req[r].response.error = "Invalid signature"
    /\ req[o].event.sig = "missing"
    /\ req[o].event.type = "payment_intent.succeeded"
    /\ req[o].response.error = "Missing Stripe signature"

\* C10: a request with a verified signature and an event of one of the nine
\* types, whatever lookups against the payment processor failed, returns a
\* 2xx response.
C10_LookupFailureAcknowledged ==
  \A r \in Requests :
    LET q == req[r]
    IN  (q.event.sig = "valid" /\ q.event.type \in RecognizedTypes
           /\ q.pc = "done")
          => (q.response.status >= 200 /\ q.response.status < 300)

\* the awaits inside saveDonationRecord: the donor lookup, the donor update
\* or create, the donation create
SavePcs == {"save_find", "save_update", "save_create", "save_donation"}

Acknowledged(q) ==
  /\ q.pc = "done"
  /\ q.response.status = 200
  /\ q.response.received

\* C11: the step in which a storage call of saveDonationRecord (donor
\* lookup, donor update or create, donation create) fails, in a request
\* handling payment_intent.succeeded or invoice.payment_succeeded, ends the
\* request with the 200 { received: true } response; no mail call has been
\* or is made for it, and the call that failed wrote nothing.
C11_StorageFailureAcknowledged ==
  [][\A r \in Requests :
       (req[r].pc \in SavePcs /\ req'[r].pc \notin SavePcs
          /\ req'[r].dbWrites = req[r].dbWrites
          /\ donors' = donors /\ donations' = donations) =>
         /\ req[r].event.type \in {"payment_intent.succeeded",
                                   "invoice.payment_succeeded"}
         /\ Acknowledged(req'[r])
         /\ req'[r].response.error = ""
         /\ req'[r].mailCalls = 0
         /\ req'[r].mailsSent = 0]_vars

\* the donation create of an invoice event failed after its donor write,
\* and the donor lookup of a payment intent event failed
C11_Witness ==
  \E r \in Requests, o \in Requests :
    /\ req[r].event.type = "invoice.payment_succeeded"
    /\ req[r].pc = "done" /\ req[r].dbWrites = 2 /\ req[r].mailCalls = 0
    /\ req[r].response.status = 200
    /\ donations = <<>>
    /\ req[o].event.type = "payment_intent.succeeded"
    /\ req[o].pc = "done" /\ req[o].dbReads = 1 /\ req[o].dbWrites = 0
    /\ req[o].response.status = 200

\* the donation record saveDonationRecord creates for the request q
DonationOf(q) ==
  [donorEmail |-> q.email, amount |-> q.amount, isRecurring |-> q.isRecurring]

\* the request q's donor and donation are in the tables
Persisted(q) ==
  /\ \E i \in DOMAIN donors : donors[i].email = q.email
  /\ \E i \in DOMAIN donations : donations[i] = DonationOf(q)

\* C12: the step in which the send of sendDonationEmail or
\* sendPaymentFailedEmail throws, inside handlePaymentIntentSucceeded,
\* handleInvoicePaymentSucceeded or handlePaymentFailed, ends the request
\* with the 200 { received: true } response and leaves both tables as they
\* were; for the two payment handlers the tables hold the event's donor and
\* its donation record.
C12_MailFailureAcknowledged ==
  [][\A r \in Requests :
       (req[r].pc \in {"mail", "pf_mail"} /\ req'[r].pc # req[r].pc
          /\ req'[r].mailsSent = req[r].mailsSent) =>
         /\ req[r].handlers \in {<<"handlePaymentIntentSucceeded">>,
                                 <<"handleInvoicePaymentSucceeded">>,
                                 <<"handlePaymentFailed">>}
         /\ Acknowledged(req'[r])
         /\ req'[r].response.error = ""
         /\ donors' = donors
         /\ donations' = donations
         /\ req[r].pc = "mail" => Persisted(req[r])']_vars

\* the sends of a one-time payment and of a recurring payment of the same
\* donor both failed; both donations are stored
C12_Witness ==
  \E r \in Requests, o \in Requests :
    /\ req[r].handlers = <<"handlePaymentIntentSucceeded">>
    /\ req[o].handlers = <<"handleInvoicePaymentSucceeded">>
    /\ \A q \in {req[r], req[o]} :
         /\ q.pc = "done" /\ q.mailCalls = 1 /\ q.mailsSent = 0
         /\ q.response.status = 200
         /\ Persisted(q)
    /\ Len(donations) = 2

\* the send of the payment-failed notice failed
C12_FailedNoticeWitness ==
  \E r \in Requests :
    /\ req[r].handlers = <<"handlePaymentFailed">>
    /\ req[r].pc = "done" /\ req[r].mailCalls = 1 /\ req[r].mailsSent = 0
    /\ req[r].response.status = 200

\* a payment_intent.succeeded event that handlePaymentIntentSucceeded does
\* not skip and whose metadata holds no donorEmail
NoMetadataEmail(ev) ==
  /\ ev.sig = "valid"
  /\ ev.type = "payment_intent.succeeded"
  /\ ~ev.subscription /\ ~ev.invoice
  /\ ev.email = ""

NoStorageNoMail(q) ==
  /\ q.dbReads = 0
  /\ q.dbWrites = 0
  /\ q.mailCalls = 0
  /\ q.mailsSent = 0

\* C13: a payment_intent.succeeded event without metadata.donorEmail is
\* acknowledged with status 200 { received: true, error: 'Missing email' },
\* without any storage read or write and without a mail call, in the step
\* that finds no billing email: the step of POST when the payment intent has
\* no charge, the step in which the charge resolves without a billing email
\* otherwise.  The tables are left as they were.
C13_MissingEmailAcknowledged ==
  [][\A r \in Requests :
       /\ \A ev \in Events :
            (POST(r, ev) /\ NoMetadataEmail(ev) /\ ~ev.latestCharge) =>
              /\ Acknowledged(req'[r])
              /\ req'[r].response.error = "Missing email"
              /\ NoStorageNoMail(req'[r])
              /\ req'[r].stripeCalls = 0
              /\ donors' = donors /\ donations' = donations
       /\ (ChargeResolves(r, "") /\ NoMetadataEmail(req[r].event)) =>
              /\ Acknowledged(req'[r])
              /\ req'[r].response.error = "Missing email"
              /\ NoStorageNoMail(req'[r])
              /\ donors' = donors /\ donations' = donations]_vars

\* both cases: no charge at all, and a charge without billing email
C13_Witness ==
  \E r \in Requests, o \in Requests :
    /\ NoMetadataEmail(req[r].event) /\ ~req[r].event.latestCharge
    /\ req[r].response = ReceivedMissingEmail
    /\ NoStorageNoMail(req[r])
    /\ NoMetadataEmail(req[o].event) /\ req[o].event.latestCharge
    /\ req[o].stripeCalls = 1
    /\ req[o].response = ReceivedMissingEmail
    /\ NoStorageNoMail(req[o])

\* a call the finished request q made failed: a lookup that is not caught
\* (status 500), a storage call (a lookup was issued and no mail was), or
\* the send
CollaboratorFailed(q) ==
  \/ q.response.status = 500
  \/ q.dbReads = 1 /\ q.mailCalls = 0
  \/ q.mailCalls = 1 /\ q.mailsSent = 0

\* the request r has handled to its end, every collaborator succeeding, an
\* invoice.payment_succeeded event with a subscription whose customer_email
\* is that of the donor the table held at the start, while no other request
\* has issued a storage write
InvoiceOfKnownDonorDone(r) ==
  LET q == req[r]
  IN  /\ q.event.sig = "valid"
      /\ q.event.type = "invoice.payment_succeeded"
      /\ q.event.subscription
      /\ q.event.email = MetaEmail
      /\ q.pc = "done"
      /\ ~CollaboratorFailed(q)
      /\ DonorRows(MetaEmail) # {}
      /\ q.dbReads = 1 => q.found
      /\ \A o \in Requests \ {r} : req[o].dbWrites = 0

\* what the claim describes: the donor's total raised by amount_paid / 100,
\* and one donation record, recurring
OneRecurringDonationAdded(q) ==
  /\ donors = <<[email |-> MetaEmail,
                 totalDonations |-> InitialTotal + q.event.amount \div 100]>>
  /\ donations = <<[donorEmail |-> MetaEmail,
                    amount |-> q.event.amount \div 100,
                    isRecurring |-> TRUE]>>

\* C14 as stated: an invoice.payment_succeeded event with a subscription
\* whose customer email is that of an existing donor with total
\* previousTotal leaves the donor with previousTotal + amount_paid / 100 and
\* one new donation record with isRecurring = true, when all collaborators
\* succeed.
C14_InvoiceAddsOneDonation ==
  \A r \in Requests :
    InvoiceOfKnownDonorDone(r) => OneRecurringDonationAdded(req[r])

\* the same for an amount_paid that is not 0; an amount_paid of 0 is
\* acknowledged and the donor's total and the donations are left as they
\* were, no storage call and no mail call being made
InvoiceAloneAddsOneDonation ==
  \A r \in Requests :
    InvoiceOfKnownDonorDone(r) =>
      IF req[r].event.amount # 0
      THEN /\ OneRecurringDonationAdded(req[r])
           /\ req[r].mailsSent = 1
      ELSE /\ donors = <<[email |-> MetaEmail, totalDonations |-> InitialTotal]>>
           /\ donations = <<>>
           /\ NoStorageNoMail(req[r])
           /\ req[r].response = Received

\* the row getFirst resolves to
FirstRow(email) ==
  CHOOSE i \in DonorRows(email) : \A j \in DonorRows(email) : i <= j

\* a step of the request r, handling an invoice.payment_succeeded event with
\* a subscription: the lookup that finds the donor computes the total it
\* read plus amount_paid / 100, the update stores that total in the donor's
\* row, the donation create appends one recurring record of a non-zero
\* amount, and no other step of r writes to a table (the steps of the
\* create branch, for a donor not found, apart)
InvoiceStep(r) ==
  LET q   == req[r]
      n   == req'[r]
      amt == q.event.amount \div 100
      on(from, to) == q.pc = from /\ n.pc = to
  IN  (n # q /\ q.event.sig = "valid"
         /\ q.event.type = "invoice.payment_succeeded") =>
        CASE on("save_find", "save_update") ->
               /\ n.total = donors[FirstRow(q.email)].totalDonations + amt
               /\ amt # 0
               /\ donors' = donors /\ donations' = donations
          [] on("save_update", "save_donation") ->
               /\ DOMAIN donors' = DOMAIN donors
               /\ \A i \in DOMAIN donors :
                    /\ donors'[i].email = donors[i].email
                    /\ donors'[i].totalDonations =
                         IF donors[i].email = q.email THEN q.total
                         ELSE donors[i].totalDonations
               /\ donations' = donations
          [] on("save_donation", "mail") ->
               /\ donations' = Append(donations,
                                      [donorEmail |-> q.email, amount |-> amt,
                                       isRecurring |-> TRUE])
               /\ donors' = donors
          [] on("save_create", "save_donation") -> donations' = donations
          [] OTHER -> donors' = donors /\ donations' = donations

\* C14 amended: an invoice.payment_succeeded event with a subscription and
\* an amount_paid that is not 0, whose customer email is that of an existing
\* donor, sets the donor's total to the total its lookup read plus
\* amount_paid / 100 and creates exactly one donation record, with
\* isRecurring = true, when all collaborators succeed; handled with no other
\* write to the donor in between, it leaves the donor with previousTotal +
\* amount_paid / 100.  With an amount_paid of 0 nothing is stored or sent.
C14_InvoiceWithAmountAddsOneDonation ==
  /\ []InvoiceAloneAddsOneDonation
  /\ [][\A r \in Requests : InvoiceStep(r)]_vars

\* an invoice of 25.00 for the donor whose total was InitialTotal
C14_Witness ==
  \E r \in Requests :
    /\ InvoiceOfKnownDonorDone(r)
    /\ req[r].event.amount = 2500
    /\ req[r].mailsSent = 1
    /\ donors[1].totalDonations = InitialTotal + 25
    /\ Len(donations) = 1

\* the requests whose donor write for `email` has resolved
DonorWriters(email) ==
  {r \in Requests : req[r].email = email /\ req[r].dbWrites = 2}

RECURSIVE SumAmounts(_)
SumAmounts(S) ==
  IF S = {} THEN 0
  ELSE LET r == CHOOSE x \in S : TRUE
       IN  req[r].amount + SumAmounts(S \ {r})

\* no request is inside a handler
Quiescent == \A r \in Requests : req[r].pc \in {"idle", "done"}

\* the donor of `email` was in the table at the start: no request created it
DonorFromStart(email) ==
  /\ DonorRows(email) # {}
  /\ \A r \in DonorWriters(email) : req[r].found

\* C15: a donor's stored totalDonations never decreases, whatever the
\* interleaving of the handlers; and once the handlers have ended, the total
\* of a donor the table held at the start is the total it had then plus the
\* amounts of the events whose donor write succeeded.
C15_TotalMonotonic ==
  /\ [][\A i \in DOMAIN donors :
          donors'[i].totalDonations >= donors[i].totalDonations]_vars
  /\ [](Quiescent =>
          \A i \in DOMAIN donors :
            DonorFromStart(donors[i].email) =>
              donors[i].totalDonations =
                InitialTotal + SumAmounts(DonorWriters(donors[i].email)))

\* the requests whose saveDonationRecord returned: the handler went on to
\* the send
SavedRequests ==
  {r \in Requests :
     /\ req[r].handlers \in {<<"handlePaymentIntentSucceeded">>,
                             <<"handleInvoicePaymentSucceeded">>}
     /\ req[r].mailCalls = 1}

\* one donation record per event whose saveDonationRecord returned
OneDonationPerSavedEvent ==
  /\ Len(donations) = Cardinality(SavedRequests)
  /\ \A r \in SavedRequests :
       \E i \in DOMAIN donations : donations[i] = DonationOf(req[r])

\* C16: in every state, whatever the interleaving of the handlers, the
\* donors table holds at most one row per email, and the donations table
\* holds exactly one record per event whose saveDonationRecord returned.
C16_OneDonorPerEmail ==
  /\ \A i \in DOMAIN donors, j \in DOMAIN donors :
       donors[i].email = donors[j].email => i = j
  /\ OneDonationPerSavedEvent

\* every sendWithRetry call invoked so far has returned or thrown
AllCallsCompleted == \A c \in Calls : pc[c] \in {"idle", "returned", "thrown"}

\* C17: whenever no sendWithRetry call is in flight, whatever the
\* interleaving of the calls before, every call invoked has been counted
\* once: totalSent is the number of calls that returned, totalFailed the
\* number that threw, their sum the number of calls invoked, and
\* deliveryRate is what updateDeliveryRate computes from these two counters.
C17_NoIncrementLost ==
  AllCallsCompleted =>
    LET sent   == Count(settled, "returned")
        failed == Count(settled, "thrown")
    IN  /\ emailMetrics.totalSent = sent
        /\ emailMetrics.totalFailed = failed
        /\ sent + failed = started
        /\ emailMetrics.deliveryRate =
             updateDeliveryRate([emailMetrics EXCEPT !.totalSent = sent,
                                                     !.totalFailed = failed]
                               ).deliveryRate

\* three calls, two of them successful, the last two to complete having
\* both retried
C17_Witness ==
  /\ AllCallsCompleted
  /\ started = MaxCalls
  /\ emailMetrics.totalSent = 2
  /\ emailMetrics.totalFailed = 1
  /\ \A c \in Calls : Len(waits[c]) >= 1
  /\ \E c \in Calls : pc[c] = "thrown"

\* the requests handled by one of the two handlers that call
\* saveDonationRecord and sendDonationEmail
PaymentRequests ==
  {r \in Requests :
     req[r].handlers \in {<<"handlePaymentIntentSucceeded">>,
                          <<"handleInvoicePaymentSucceeded">>}}

\* C18: in every state, a payment request for which sendDonationEmail has
\* been called has had its donor lookup, its donor write and its donation
\* create succeed: the donor and the donation record are in the tables, for
\* a non-empty email and a non-zero amount.  So a request whose event has
\* amount 0, whose email is empty, or whose storage call failed has made no
\* mail call.
C18_MailOnlyAfterSave ==
  \A r \in PaymentRequests :
    LET q == req[r]
    IN  /\ q.mailCalls \in {0, 1}
        /\ q.mailCalls = 1 =>
             /\ q.dbReads = 1
             /\ q.dbWrites = 2
             /\ q.email # ""
             /\ q.amount # 0
             /\ q.amount = q.event.amount \div 100
             /\ Persisted(q)
        /\ (q.pc = "done" /\ (q.event.amount = 0 \/ q.email = "")) =>
             q.mailCalls = 0
        /\ q.pc \in SavePcs => q.mailCalls = 0

\* a receipt is being sent for a saved donation, while the other request,
\* an invoice of amount 0 for a customer with an email, has ended without a
\* mail call
C18_Witness ==
  \E r \in PaymentRequests, o \in PaymentRequests :
    /\ req[r].pc = "mail"
    /\ Persisted(req[r])
    /\ req[o].pc = "done"
    /\ req[o].event.amount = 0
    /\ req[o].email # ""
    /\ req[o].response = Received
    /\ req[o].mailCalls = 0

RECURSIVE SumDonations(_, _)
\* the sum of the amounts of the first n donation records of `email`
SumDonations(email, n) ==
  IF n = 0 THEN 0
  ELSE SumDonations(email, n - 1) +
         (IF donations[n].donorEmail = email THEN donations[n].amount ELSE 0)

\* C19: starting from empty tables, whenever no request is inside
\* saveDonationRecord, whichever storage calls failed before, the
\* totalDonations of every donor row is the sum of the amounts of the
\* donation records stored for its email.
C19_TotalsMatchDonations ==
  (\A r \in Requests : req[r].pc \notin SavePcs) =>
    \A i \in DOMAIN donors :
      donors[i].totalDonations = SumDonations(donors[i].email, Len(donations))

\* a payment_intent.succeeded event of a subscription payment: the payment
\* intent carries an invoice, or its metadata a subscriptionId
SubscriptionPaymentIntent(ev) ==
  /\ ev.sig = "valid"
  /\ ev.type = "payment_intent.succeeded"
  /\ ev.subscription \/ ev.invoice

\* the invoice.payment_succeeded event of a subscription payment
SubscriptionInvoice(ev) ==
  /\ ev.sig = "valid"
  /\ ev.type = "invoice.payment_succeeded"
  /\ ev.subscription

\* C20: a payment_intent.succeeded event whose payment intent carries an
\* invoice or a metadata.subscriptionId has been acknowledged with 200
\* { received: true } by handlePaymentIntentSucceeded without any processor,
\* storage or mail call.  So when the two requests are the
\* payment_intent.succeeded and the invoice.payment_succeeded event of a
\* recurring payment, in every state of every interleaving the donations
\* table holds at most one record, the invoice's, recurring, and it holds it
\* exactly when the invoice's saveDonationRecord has returned; and the donor
\* table is as at the start until the invoice's donor write, and from then
\* on holds one row for the donor whose total is the one at the start (0 for
\* a new donor) plus amount_paid / 100.
C20_SubscriptionIntentSkipped ==
  /\ \A r \in Requests :
       SubscriptionPaymentIntent(req[r].event) =>
         /\ req[r].handlers = <<"handlePaymentIntentSucceeded">>
         /\ req[r].pc = "done"
         /\ req[r].response = Received
         /\ NoCollaboratorCalls(req[r])
  /\ \A r \in Requests, o \in Requests :
       (SubscriptionPaymentIntent(req[r].event)
          /\ SubscriptionInvoice(req[o].event)) =>
         LET q   == req[o]
             amt == q.event.amount \div 100
         IN  /\ Len(donations) <= 1
             /\ Len(donations) = 1 <=> q.mailCalls = 1
             /\ Len(donations) = 1 =>
                  donations[1] = [donorEmail |-> q.email, amount |-> amt,
                                  isRecurring |-> TRUE]
             /\ IF q.dbWrites = 2
                THEN /\ Cardinality(DonorRows(q.email)) = 1
                     /\ donors[FirstRow(q.email)].totalDonations =
                          (IF q.found THEN InitialTotal ELSE 0) + amt
                     /\ \A i \in DOMAIN donors :
                          donors[i].email # q.email => <<donors[i]>> \in InitialDonors
                ELSE donors \in InitialDonors

\* both events of a recurring payment of 5.00 by the donor of the start have
\* been handled, every collaborator succeeding
C20_Witness ==
  \E r \in Requests, o \in Requests :
    /\ SubscriptionPaymentIntent(req[r].event)
    /\ req[r].event.invoice
    /\ req[r].pc = "done"
    /\ SubscriptionInvoice(req[o].event)
    /\ req[o].event.amount = req[r].event.amount
    /\ req[o].email = req[r].event.email
    /\ req[o].pc = "done"
    /\ req[o].mailsSent = 1
    /\ donors = <<[email |-> MetaEmail, totalDonations |-> InitialTotal + 5]>>
    /\ Len(donations) = 1

====
